---- MODULE Spec2Model ----
(***************************************************************************)
(* Model of the MCP session manager (backend/app/mcp_manager.py) and of    *)
(* the holdings endpoint with its in-memory cache (backend/app/main.py).   *)
(*                                                                         *)
(* Python values are tagged records:                                       *)
(*   [k |-> "none"]                 None                                   *)
(*   [k |-> "num",  n |-> i]        an int or float                        *)
(*   [k |-> "str",  toks |-> s]     a str that json.loads rejects; s is    *)
(*                                  its text as whitespace-separated tokens*)
(*   [k |-> "jstr", v |-> x]        the str that is the JSON text of x     *)
(*   [k |-> "bytes", toks |-> s]    a bytes object                         *)
(*   [k |-> "list", items |-> q]    a list or tuple                        *)
(*   [k |-> "dict", m |-> f]        a dict, f a function on its keys       *)
(*   [k |-> "obj",  a |-> f]        any other object, f its attributes     *)
(***************************************************************************)
EXTENDS Integers, Sequences, FiniteSets, TLC

VARIABLES
    client,      \* MCPManager._client: 0 for None, else the handle's number
    lock,        \* MCPManager._lock: 0 when free, else the task holding it
    hstate,      \* per handle: "none", "entering", "live", "failed", "closed"
    exits,       \* per handle: how many times __aexit__ was called on it
    closes,      \* how many teardowns (close() with a handle) have completed
    born,        \* per handle: the value of closes when its Client was created
    cache,       \* app.state.holdings_cache: NoCache for None, else the list
    cacheLock,   \* app.state.holdings_cache_lock: 0 when free, else the holder
    lastWrite,   \* the list most recently assigned to the cache
    fetched,     \* TRUE once a holdings request has returned a fresh fetch
    pc,          \* per task: where it is
    op,          \* per task: "login", "holdings", "get_holdings", "close"
    refresh,     \* per task: the refresh parameter of mcp_holdings
    retries,     \* per task: the retries parameter of get_holdings
    hc,          \* per task: the local variable client (0 before it is set)
    attempt,     \* per task: the local variable attempt of get_holdings
    last_err,    \* per task: the local variable last_err of get_holdings
    calls,       \* per task: the tool names it passed to call_tool, in order
    sleeps,      \* per task: the exponents of its backoff sleeps, in order
    raw,         \* per task: the last value call_tool returned to it
    filtered,    \* per task: the local variable filtered of mcp_holdings
    invoked,     \* per task: whether it has called mcp_manager.get_holdings
    result,      \* per task: what its operation returned or raised
    t0,          \* per task: closes, fetched and lastWrite as its operation began
    begun,       \* how many operations have begun
    nin,         \* the input of the pure functions
    nout,        \* their outputs
    nphase       \* the position of the pure-function specification

mgrVars == <<client, lock, hstate, exits, closes, born>>
cacheVars == <<cache, cacheLock, lastWrite, fetched>>
locals == <<hc, attempt, last_err, calls, sleeps, raw, filtered, invoked, result>>
taskVars == <<pc, op, refresh, retries, locals, t0, begun>>
normVars == <<nin, nout, nphase>>
vars == <<mgrVars, cacheVars, taskVars, normVars>>

(***************************************************************************)
(* Python values                                                           *)
(***************************************************************************)
PNone == [k |-> "none"]
PNum(i) == [k |-> "num", n |-> i]
PText(s) == [k |-> "str", toks |-> s]
PJson(x) == [k |-> "jstr", v |-> x]
PBytes(s) == [k |-> "bytes", toks |-> s]
PList(q) == [k |-> "list", items |-> q]
PDict(f) == [k |-> "dict", m |-> f]
PObj(f) == [k |-> "obj", a |-> f]

IsStr(x) == x.k \in {"str", "jstr"}
IsDict(x) == x.k = "dict"
IsList(x) == x.k = "list"
HasKey(x, key) == key \in DOMAIN x.m
HasAttr(x, attr) == x.k = "obj" /\ attr \in DOMAIN x.a
\* getattr(x, attr, None)
GetAttr(x, attr) == IF HasAttr(x, attr) THEN x.a[attr] ELSE PNone

\* The outcome of an expression that raised an Exception
Raised == [k |-> "raise"]
\* (a try without its except clause: the exception leaves the function)
Propagate(v, fallback) == v
\* try: v  except Exception: fallback
TryExcept(v, fallback) == IF v = Raised THEN fallback ELSE v

\* bool(x)
Truthy(x) ==
    CASE x.k = "none" -> FALSE
      [] x.k \in {"num", "float"} -> x.n # 0
      [] x.k = "pct" -> x.num # 0
      [] x.k = "str" -> x.toks # <<>>
      [] x.k = "bytes" -> x.toks # <<>>
      [] x.k = "list" -> x.items # <<>>
      [] x.k = "dict" -> DOMAIN x.m # {}
      [] OTHER -> TRUE

\* The URLs of the texts: each is a whole match of https?://[\w\-./?=&%:]+
Urls == {"http://a", "https://b"}
\* The explicit marker of the first pattern of extract_url
Marker == "URL:"
\* Absent URL (None), as a value of the same sort as a URL
NoUrl == "None"

\* The order in which a dict's keys and an object's attributes appear in its text
NameOrder == <<"type", "text", "message", "url", "data", "content",
               "structured_content", "holdings", "link", "tradingsymbol">>

RECURSIVE Toks(_)
RECURSIVE ToksOfItems(_, _)
RECURSIVE ToksOfFields(_, _)

\* One element inside the text of a container: a str is quoted there
Quoted(x) == IF IsStr(x) \/ x.k = "bytes" THEN <<"'">> \o Toks(x) \o <<"'">> ELSE Toks(x)

ToksOfItems(q, i) ==
    IF i > Len(q) THEN <<>> ELSE Quoted(q[i]) \o <<",">> \o ToksOfItems(q, i + 1)

ToksOfFields(f, i) ==
    IF i > Len(NameOrder) THEN <<>>
    ELSE (IF NameOrder[i] \in DOMAIN f
          THEN <<NameOrder[i], "=">> \o Quoted(f[NameOrder[i]]) \o <<",">>
          ELSE <<>>) \o ToksOfFields(f, i + 1)

\* str(x), as the sequence of its tokens
Toks(x) ==
    CASE x.k = "none" -> <<"None">>
      [] x.k \in {"num", "float", "pct"} -> <<"0">>
      [] x.k = "str" -> x.toks
      [] x.k = "bytes" -> x.toks
      [] x.k = "jstr" -> Quoted(x.v)
      [] x.k = "list" -> <<"[">> \o ToksOfItems(x.items, 1) \o <<"]">>
      [] x.k = "dict" -> <<"{">> \o ToksOfFields(x.m, 1) \o <<"}">>
      [] OTHER -> <<"(">> \o ToksOfFields(x.a, 1) \o <<")">>

(***************************************************************************)
(* extract_url (mcp_manager.py)                                            *)
(***************************************************************************)
RECURSIVE FirstMarked(_, _)
\* re.search(r"URL:\s*(https?://[\w\-./?=&%:]+)", s): the URL of the first marker
\* that a URL follows
FirstMarked(s, i) ==
    IF i >= Len(s) THEN NoUrl
    ELSE IF s[i] = Marker /\ s[i + 1] \in Urls THEN s[i + 1]
    ELSE FirstMarked(s, i + 1)

RECURSIVE FirstBare(_, _)
\* url_pattern.search(s): the first URL of the text
FirstBare(s, i) ==
    IF i > Len(s) THEN NoUrl
    ELSE IF s[i] \in Urls THEN s[i]
    ELSE FirstBare(s, i + 1)

\* The two searches applied to one candidate's text
SearchText(s) ==
    IF FirstMarked(s, 1) # NoUrl THEN FirstMarked(s, 1) ELSE FirstBare(s, 1)

DictKeys == <<"text", "message", "url", "data", "content", "structured_content">>
ObjAttrs == <<"content", "data", "structured_content">>

RECURSIVE PresentKeys(_, _)
PresentKeys(x, i) ==
    IF i > Len(DictKeys) THEN <<>>
    ELSE (IF HasKey(x, DictKeys[i]) THEN <<x.m[DictKeys[i]]>> ELSE <<>>)
         \o PresentKeys(x, i + 1)

RECURSIVE PresentAttrs(_, _)
PresentAttrs(x, i) ==
    IF i > Len(ObjAttrs) THEN <<>>
    ELSE (IF GetAttr(x, ObjAttrs[i]) # PNone THEN <<GetAttr(x, ObjAttrs[i])>> ELSE <<>>)
         \o PresentAttrs(x, i + 1)

\* The candidate list extract_url builds from obj
Candidates(x) ==
    CASE IsStr(x) \/ x.k = "bytes" -> <<x>>
      [] IsDict(x) -> PresentKeys(x, 1)
      [] IsList(x) -> x.items
      [] OTHER ->
           LET text == IF Truthy(GetAttr(x, "text")) THEN GetAttr(x, "text")
                       ELSE GetAttr(x, "message")
           IN (IF text # PNone THEN <<text>> ELSE <<>>) \o PresentAttrs(x, 1)

\* A byte that is no UTF-8, as a token of a bytes object
BadByte == "0xff"
\* s = c.decode() if isinstance(c, bytes) else str(c): the text, or the exception
\* of decode()
Decode(c) ==
    IF c.k = "bytes" /\ \E i \in 1 .. Len(c.toks) : c.toks[i] = BadByte
    THEN Raised ELSE PText(Toks(c))

RECURSIVE extract_url(_)
RECURSIVE ScanCandidates(_, _)

\* (a loop that gives up after its first candidate)
ScanFirstOnly(cs, i) ==
    IF i > Len(cs) THEN NoUrl
    ELSE IF IsDict(cs[i]) \/ IsList(cs[i]) THEN extract_url(cs[i])
    ELSE IF Decode(cs[i]) = Raised THEN NoUrl
    ELSE SearchText(Decode(cs[i]).toks)

\* The loop over the candidates: the first that yields a URL decides, and one
\* whose text cannot be had is passed over (except Exception: continue)
ScanCandidates(cs, i) ==
    IF i > Len(cs) THEN NoUrl
    ELSE LET c == cs[i]
             u == IF IsDict(c) \/ IsList(c) THEN extract_url(c)
                  ELSE IF Decode(c) = Raised THEN NoUrl
                  ELSE SearchText(Decode(c).toks)
         IN IF u # NoUrl THEN u ELSE ScanCandidates(cs, i + 1)

extract_url(x) ==
    IF x = PNone THEN NoUrl ELSE ScanCandidates(Candidates(x), 1)

(***************************************************************************)
(* MCPManager._normalize_tool_result (mcp_manager.py)                      *)
(***************************************************************************)
\* (an unwrapping that knows objects only)
UnwrapObjects(x) ==
    IF HasAttr(x, "content") /\ IsList(x.a["content"]) /\ x.a["content"].items # <<>>
    THEN LET first == x.a["content"].items[1]
         IN IF Truthy(GetAttr(first, "text")) THEN GetAttr(first, "text") ELSE first
    ELSE x

\* The body of the try: the first content block of an envelope, or the exception
\* of first.get on a block that is no mapping
first_text(x) ==
    IF HasAttr(x, "content")
    THEN LET cont == x.a["content"]
         IN IF IsList(cont) /\ cont.items # <<>>
            THEN LET first == cont.items[1]
                 IN IF Truthy(GetAttr(first, "text")) THEN GetAttr(first, "text") ELSE first
            ELSE x
    ELSE IF IsDict(x) /\ HasKey(x, "content")
    THEN LET cont == x.m["content"]
         IN IF IsList(cont) /\ cont.items # <<>>
            THEN LET first == cont.items[1]
                 IN IF IsDict(first)
                    THEN (IF HasKey(first, "text") THEN first.m["text"] ELSE first)
                    ELSE Raised   \* first.get: AttributeError
            ELSE x
    ELSE x

\* First stage: value = the first content block; except Exception: value = raw
Unwrap(x) == TryExcept(first_text(x), x)

\* json.loads(value): the decoded value, or the exception of a text that is no JSON
json_loads(x) == IF x.k = "jstr" THEN x.v ELSE Raised

\* Second stage: json.loads of a str, the str itself when it is not JSON
JsonDecode(x) == IF IsStr(x) THEN TryExcept(json_loads(x), x) ELSE x

_normalize_tool_result(x) == JsonDecode(Unwrap(x))

\* get_holdings' reading of the normalized value as a list of holdings
HoldingsList(data) ==
    LET d == IF IsDict(data) /\ HasKey(data, "holdings") THEN data.m["holdings"] ELSE data
    IN IF IsList(d) THEN d ELSE IF IsDict(d) THEN PList(<<d>>) ELSE PList(<<>>)

(***************************************************************************)
(* _to_num and the enrichment of one holding (main.py)                     *)
(***************************************************************************)
\* The float of value i, and the float (num / den) * 100
PFloat(i) == [k |-> "float", n |-> i]
PPct(num, den) == [k |-> "pct", num |-> num, den |-> den]
\* isinstance(v, (int, float))
IsNum(x) == x.k \in {"num", "float", "pct"}
\* x == 0
IsZero(x) == x.k \in {"num", "float"} /\ x.n = 0

_to_num(v) ==
    CASE v.k = "none" -> PNone
      [] IsNum(v) -> v
      [] v.k = "str" /\ v.toks = <<>> -> PNone           \* str(v).strip() == ""
      [] v.k = "jstr" /\ v.v.k \in {"num", "float"} -> PFloat(v.v.n)   \* float(s)
      [] OTHER -> v                                      \* float(s) raised

\* d.get(key)
Get(d, key) == IF key \in DOMAIN d THEN d[key] ELSE PNone
\* a or b
Or(a, b) == IF Truthy(a) THEN a ELSE b
\* The number i as the int or float that the operands a and b give
NumLike(a, b, i) == IF a.k = "num" /\ b.k = "num" THEN PNum(i) ELSE PFloat(i)
\* a - b
Minus(a, b) ==
    IF a.k \in {"num", "float"} /\ b.k \in {"num", "float"}
    THEN NumLike(a, b, a.n - b.n) ELSE Raised

RECURSIVE Repeat(_, _)
\* The sequence s, n times over
Repeat(s, n) == IF n <= 0 THEN <<>> ELSE s \o Repeat(s, n - 1)

\* a * b, a a number: the product, or for an int a the str or list b repeated
Times(a, b) ==
    CASE b.k \in {"num", "float"} -> NumLike(a, b, a.n * b.n)
      [] a.k = "num" /\ b.k = "str" -> PText(Repeat(b.toks, a.n))
      [] a.k = "num" /\ b.k = "jstr" ->
           IF a.n = 1 THEN b ELSE PText(Repeat(Toks(b), a.n))
      [] a.k = "num" /\ b.k = "list" -> PList(Repeat(b.items, a.n))
      [] OTHER -> Raised
\* (a / b) * 100: ZeroDivisionError when b is zero, TypeError when a is no number
Percent(a, b) ==
    IF a.k \in {"num", "float"} /\ b.k \in {"num", "float"} /\ b.n # 0
    THEN PPct(a.n, b.n) ELSE Raised
\* f with f[key] = v
With(f, key, v) == [x \in DOMAIN f \cup {key} |-> IF x = key THEN v ELSE f[x]]

allowed_keys == {"tradingsymbol", "price", "quantity", "t1_quantity", "opening_quantity",
                 "average_price", "close_price", "pnl", "day_change",
                 "day_change_percentage"}
numeric_keys == allowed_keys \ {"tradingsymbol"}

\* (a close price that is never looked at)
CloseUnchecked(close) == TRUE
\* close not in (None, 0) ... and close
CloseUsable(close) == close # PNone /\ ~IsZero(close) /\ Truthy(close)

\* o = {k: item.get(k) for k in allowed_keys if k in item}
Project(item) == [x \in DOMAIN item \cap allowed_keys |-> item[x]]

\* The body of the loop of mcp_holdings for one item that is a dict: o is the
\* record appended to filtered, div the operands of the division it made
Derive(item) ==
    LET o0 == Project(item)
        price == _to_num(IF "price" \in DOMAIN o0 THEN o0["price"]
                         ELSE Or(Get(item, "last_price"), Get(item, "close_price")))
        close == _to_num(Get(item, "close_price"))
        avg == _to_num(Get(item, "average_price"))
        qty == _to_num(Get(item, "quantity"))
        o1 == IF "tradingsymbol" \in DOMAIN o0 THEN o0
              ELSE With(o0, "tradingsymbol",
                        Or(Get(item, "symbol"),
                           Or(Get(item, "ticker"), Or(Get(item, "company"), PText(<<"-">>)))))
        pnl == IF Minus(price, avg) = Raised THEN Raised ELSE Times(Minus(price, avg), qty)
        o2 == IF "pnl" \notin DOMAIN o1 /\ price # PNone /\ avg # PNone /\ qty # PNone
                 /\ pnl # Raised
              THEN With(o1, "pnl", pnl) ELSE o1
        o3 == IF "day_change" \notin DOMAIN o2 /\ price # PNone /\ close # PNone
                 /\ Minus(price, close) # Raised
              THEN With(o2, "day_change", Minus(price, close)) ELSE o2
        dc0 == Get(o3, "day_change")
        dc == IF dc0 = PNone /\ price # PNone /\ close # PNone THEN Minus(price, close) ELSE dc0
        divides == /\ "day_change_percentage" \notin DOMAIN o3 /\ CloseUsable(close)
                   /\ dc # Raised /\ dc # PNone
        o4 == IF divides /\ Percent(dc, close) # Raised
              THEN With(o3, "day_change_percentage", Percent(dc, close)) ELSE o3
    IN [o |-> [x \in DOMAIN o4 |-> IF x \in numeric_keys THEN _to_num(o4[x]) ELSE o4[x]],
        div |-> IF divides THEN <<dc, close>> ELSE <<>>]

Enrich(item) == Derive(item).o

RECURSIVE EnrichAll(_, _)
\* The list filtered of mcp_holdings: the dicts of raw_holdings, enriched, in order
EnrichAll(q, i) ==
    IF i > Len(q) THEN <<>>
    ELSE (IF IsDict(q[i]) THEN <<PDict(Enrich(q[i].m))>> ELSE <<>>) \o EnrichAll(q, i + 1)

\* sample_keys = list(raw_holdings[0].keys()) if count else []: raises when the
\* first element has no keys()
SampleKeysRaises(q) == q # <<>> /\ ~IsDict(q[1])

(***************************************************************************)
(* The tasks of the event loop: requests to the endpoints and direct calls *)
(* of the manager's methods                                                *)
(***************************************************************************)
NTasks == 2
MaxOps == 3
MaxHandles == 2
MaxRetries == 2
\* get_holdings(self, retries: int = 3, ...)
DefaultRetries == 3

Tasks == 1 .. NTasks
Handles == 1 .. MaxHandles

\* A TextContent block and the CallToolResult holding it
TextBlock(s) == PObj([type |-> PText(<<"text">>), text |-> s])
Envelope(s) == PObj([content |-> PList(<<TextBlock(s)>>), data |-> PNone,
                     structured_content |-> PNone])

HoldingA == PDict([tradingsymbol |-> PText(<<"INFY">>), price |-> PNum(110),
                   average_price |-> PJson(PNum(100)), quantity |-> PNum(10)])

HoldingB == PDict([symbol |-> PText(<<"TCS">>), last_price |-> PNum(120),
                   close_price |-> PNum(100), exchange |-> PText(<<"NSE">>)])

\* What the login tool answers
LoginResults == {Envelope(PText(<<"w", Marker, "http://a">>)), Envelope(PText(<<"w">>))}
\* What the get_holdings tool answers: JSON lists of one and of two holdings, a
\* plain text, and a JSON list whose first element is no mapping
HoldingsResults == {Envelope(PJson(PList(<<HoldingA>>))),
                    Envelope(PJson(PList(<<HoldingB, HoldingA>>))),
                    Envelope(PText(<<"w">>)),
                    Envelope(PJson(PList(<<PNum(5), HoldingA>>)))}

\* The outcome of an operation: a returned value, or a raised error of some kind.
\* The exception a tool call raises is named by the number of the call that
\* raised it (0: no exception); err is the exception the raised error reports
NoResult == [st |-> "none", v |-> PNone, kind |-> "", err |-> 0]
Ok(v) == [st |-> "ok", v |-> v, kind |-> "", err |-> 0]
Err(kind, e) == [st |-> "err", v |-> PNone, kind |-> kind, err |-> e]

\* The requests of the endpoints (mcp_login, mcp_holdings, on_shutdown)
AppRequests ==
    {[op |-> "login", refresh |-> FALSE, retries |-> 0],
     [op |-> "close", refresh |-> FALSE, retries |-> 0]}
    \cup {[op |-> "holdings", refresh |-> b, retries |-> DefaultRetries] : b \in BOOLEAN}

\* The calls of the manager's methods (get_login_url, get_holdings, close)
MgrRequests ==
    {[op |-> "login", refresh |-> FALSE, retries |-> 0],
     [op |-> "close", refresh |-> FALSE, retries |-> 0]}
    \cup {[op |-> "get_holdings", refresh |-> FALSE, retries |-> r] :
            r \in (1 .. MaxRetries) \cup {DefaultRetries}}

\* The manager, the cache and the tasks after create_app()
AppInit ==
    /\ client = 0
    /\ lock = 0
    /\ hstate = [h \in Handles |-> "none"]
    /\ exits = [h \in Handles |-> 0]
    /\ closes = 0
    /\ born = [h \in Handles |-> 0]
    /\ cache = PNone
    /\ cacheLock = 0
    /\ lastWrite = PNone
    /\ fetched = FALSE
    /\ pc = [t \in Tasks |-> "idle"]
    /\ op = [t \in Tasks |-> "none"]
    /\ refresh = [t \in Tasks |-> FALSE]
    /\ retries = [t \in Tasks |-> 0]
    /\ hc = [t \in Tasks |-> 0]
    /\ attempt = [t \in Tasks |-> 0]
    /\ last_err = [t \in Tasks |-> 0]
    /\ calls = [t \in Tasks |-> <<>>]
    /\ sleeps = [t \in Tasks |-> <<>>]
    /\ raw = [t \in Tasks |-> PNone]
    /\ filtered = [t \in Tasks |-> PNone]
    /\ invoked = [t \in Tasks |-> FALSE]
    /\ result = [t \in Tasks |-> NoResult]
    /\ t0 = [t \in Tasks |-> [closes |-> 0, fetched |-> FALSE, last |-> PNone]]
    /\ begun = 0

NoOut == [n1 |-> PNone, n2 |-> PNone, url |-> NoUrl]

Init ==
    /\ AppInit
    /\ nin = PNone
    /\ nout = NoOut
    /\ nphase = "off"

\* The number of Clients created so far
Creates == Cardinality({h \in Handles : hstate[h] # "none"})

\* (a manager without its lock)
LockNeverHeld == TRUE
\* asyncio.Lock: acquire() returns only when no task holds the lock
LockFree == lock = 0

\* (a check that never finds the handle)
HasClientNever == FALSE
\* if self._client is not None: return self._client
HasClient == client # 0

\* (a cache tested for truth: an empty list counts as no cache)
CacheHitTruthy(rf) == ~rf /\ Truthy(cache)
\* if not refresh and ... holdings_cache ... is not None
CacheHit(rf) == ~rf /\ cache # PNone

\* (a close that keeps the handle)
ClientKept(ok) == client
\* (a close without the finally clause)
ClientKeptOnError(ok) == IF ok THEN 0 ELSE client
\* finally: self._client = None
ClientAfterClose(ok) == 0

\* client.call_tool("login", {}) and client.call_tool("get_holdings", {})
ToolCall(t) == [tool |-> IF op[t] = "login" THEN "login" ELSE "get_holdings",
                args |-> PDict(<<>>)]

\* (a loop that runs once too often)
OneMoreAttempt(t) == attempt[t] <= retries[t]
\* while attempt < retries
MoreAttempts(t) == attempt[t] < retries[t]

\* (a sleep after every attempt)
BackoffAlways(t, raised) == Append(sleeps[t], attempt[t] + 1)
\* The backoff sleeps of a task after an attempt: asyncio.sleep(backoff ** attempt)
\* is in the except clause, after attempt += 1
BackoffAfter(t, raised) ==
    IF raised THEN Append(sleeps[t], attempt[t] + 1) ELSE sleeps[t]

\* (a login that returns whatever was extracted)
UrlNeverChecked(u) == FALSE
\* if not url: raise RuntimeError(...)
NoUsableUrl(u) == u = NoUrl

\* Task t, idle or back from its last operation, is given one of the operations
\* rqs; its locals are those of a new call. Idle tasks begin in the order of
\* their numbers
Begin(t, rqs) ==
    /\ pc[t] \in {"idle", "done", "failed"}
    /\ IF t = 1 THEN TRUE ELSE pc[t - 1] # "idle"
    /\ begun < MaxOps
    /\ begun' = begun + 1
    /\ \E rq \in rqs :
        /\ op' = [op EXCEPT ![t] = rq.op]
        /\ refresh' = [refresh EXCEPT ![t] = rq.refresh]
        /\ retries' = [retries EXCEPT ![t] = rq.retries]
        /\ t0' = [t0 EXCEPT ![t] = [closes |-> closes, fetched |-> fetched,
                                    last |-> lastWrite]]
        /\ IF rq.op = "holdings" /\ CacheHit(rq.refresh)
           THEN /\ pc' = [pc EXCEPT ![t] = "done"]
                /\ result' = [result EXCEPT ![t] = Ok(cache)]
                /\ invoked' = [invoked EXCEPT ![t] = FALSE]
           ELSE /\ pc' = [pc EXCEPT ![t] = IF rq.op = "close" THEN "closing" ELSE "ensure"]
                /\ invoked' = [invoked EXCEPT ![t] = rq.op \in {"holdings", "get_holdings"}]
                /\ result' = [result EXCEPT ![t] = NoResult]
    /\ hc' = [hc EXCEPT ![t] = 0]
    /\ attempt' = [attempt EXCEPT ![t] = 0]
    /\ last_err' = [last_err EXCEPT ![t] = 0]
    /\ calls' = [calls EXCEPT ![t] = <<>>]
    /\ sleeps' = [sleeps EXCEPT ![t] = <<>>]
    /\ raw' = [raw EXCEPT ![t] = PNone]
    /\ filtered' = [filtered EXCEPT ![t] = PNone]
    /\ UNCHANGED <<mgrVars, cacheVars, normVars>>

\* The caller has its handle h: get_login_url makes its call, get_holdings enters
\* its loop
WithClient(t, h) ==
    /\ hc' = [hc EXCEPT ![t] = h]
    /\ IF op[t] = "login" \/ MoreAttempts(t)
       THEN /\ calls' = [calls EXCEPT ![t] = Append(@, ToolCall(t))]
            /\ pc' = [pc EXCEPT ![t] = "call"]
            /\ UNCHANGED result
       ELSE /\ pc' = [pc EXCEPT ![t] = "failed"]
            /\ result' = [result EXCEPT ![t] = Err("exhausted", last_err[t])]
            /\ UNCHANGED calls

\* _ensure_client up to its first suspension: the lock is taken, and either the
\* existing handle is returned or a Client is created and __aenter__ awaited
_ensure_client(t) ==
    /\ pc[t] = "ensure"
    /\ LockFree
    /\ IF HasClient
       THEN /\ WithClient(t, client)
            /\ UNCHANGED mgrVars
       ELSE /\ Creates < MaxHandles
            /\ client' = Creates + 1
            /\ hstate' = [hstate EXCEPT ![Creates + 1] = "entering"]
            /\ born' = [born EXCEPT ![Creates + 1] = closes]
            /\ lock' = t
            /\ pc' = [pc EXCEPT ![t] = "aenter"]
            /\ UNCHANGED <<exits, closes, hc, calls, result>>
    /\ UNCHANGED <<cacheVars, normVars, op, refresh, retries, attempt, last_err, sleeps,
                   raw, filtered, invoked, t0, begun>>

\* (a manager that keeps its lock for the rest of the operation)
LockKept(t) == t
\* async with self._lock: the lock is released when the block is left, before
\* the caller goes on with the handle
LockReleased(t) == 0

\* __aenter__ returns: the lock is released and the handle returned
AenterOk(t) ==
    /\ pc[t] = "aenter"
    /\ hstate' = [hstate EXCEPT ![client] = "live"]
    /\ lock' = LockReleased(t)
    /\ WithClient(t, client)
    /\ UNCHANGED <<client, exits, closes, born>>
    /\ UNCHANGED <<cacheVars, normVars, op, refresh, retries, attempt, last_err, sleeps,
                   raw, filtered, invoked, t0, begun>>

\* (an endpoint that forgets its cache when a fetch fails)
CacheDropped == PNone
\* except Exception as e: raise HTTPException(...): the cache is not touched
CacheKept == cache

\* __aenter__ raises: the lock is released and the exception leaves the operation
AenterFail(t) ==
    /\ pc[t] = "aenter"
    /\ hstate' = [hstate EXCEPT ![client] = "failed"]
    /\ lock' = 0
    /\ pc' = [pc EXCEPT ![t] = "failed"]
    /\ result' = [result EXCEPT ![t] = Err("connect", 0)]
    /\ cache' = IF op[t] = "holdings" THEN CacheKept ELSE cache
    /\ UNCHANGED <<client, exits, closes, born>>
    /\ UNCHANGED <<cacheLock, lastWrite, fetched, normVars, op, refresh, retries, hc, attempt, last_err,
                   calls, sleeps, raw, filtered, invoked, t0, begun>>

\* What call_tool may return to task t: the answers of its tool, or the one
\* answer under study
ToolAnswers(t) ==
    IF nphase = "holdings" THEN {nin}
    ELSE IF op[t] = "login" THEN LoginResults ELSE HoldingsResults

\* call_tool returns r; only a connected handle answers
CallOk(t) ==
    /\ pc[t] = "call"
    /\ hstate[hc[t]] = "live"
    /\ \E r \in ToolAnswers(t) :
        LET data == HoldingsList(_normalize_tool_result(r))
        IN /\ raw' = [raw EXCEPT ![t] = r]
           /\ sleeps' = [sleeps EXCEPT ![t] = BackoffAfter(t, FALSE)]
           /\ CASE op[t] = "login" ->
                     /\ IF NoUsableUrl(extract_url(r))
                        THEN /\ pc' = [pc EXCEPT ![t] = "failed"]
                             /\ result' = [result EXCEPT ![t] = Err("no_url", 0)]
                        ELSE /\ pc' = [pc EXCEPT ![t] = "done"]
                             /\ result' = [result EXCEPT ![t] =
                                              Ok(PText(<<extract_url(r)>>))]
                     /\ UNCHANGED filtered
                [] op[t] = "get_holdings" ->
                     /\ pc' = [pc EXCEPT ![t] = "done"]
                     /\ result' = [result EXCEPT ![t] = Ok(data)]
                     /\ UNCHANGED filtered
                [] OTHER ->
                     IF SampleKeysRaises(data.items)
                     THEN /\ pc' = [pc EXCEPT ![t] = "failed"]
                          /\ result' = [result EXCEPT ![t] = Err("shape", 0)]
                          /\ UNCHANGED filtered
                     ELSE /\ pc' = [pc EXCEPT ![t] = "save"]
                          /\ filtered' = [filtered EXCEPT ![t] =
                                             PList(EnrichAll(data.items, 1))]
                          /\ UNCHANGED result
    /\ UNCHANGED <<mgrVars, cacheVars, normVars, op, refresh, retries, hc, attempt,
                   last_err, calls, invoked, t0, begun>>

\* (a loop that remembers its first exception only)
FirstErr(t) == IF last_err[t] = 0 THEN Len(calls[t]) ELSE last_err[t]
\* last_err = e, e the exception of the call just made
LastErr(t) == Len(calls[t])

\* call_tool raises: get_login_url fails; get_holdings keeps the exception in
\* last_err, counts the attempt and sleeps backoff ** attempt
CallFail(t) ==
    /\ pc[t] = "call"
    /\ IF op[t] = "login"
       THEN /\ pc' = [pc EXCEPT ![t] = "failed"]
            /\ result' = [result EXCEPT ![t] = Err("tool", Len(calls[t]))]
            /\ UNCHANGED <<attempt, last_err, sleeps>>
       ELSE /\ last_err' = [last_err EXCEPT ![t] = LastErr(t)]
            /\ attempt' = [attempt EXCEPT ![t] = @ + 1]
            /\ sleeps' = [sleeps EXCEPT ![t] = BackoffAfter(t, TRUE)]
            /\ pc' = [pc EXCEPT ![t] = "sleep"]
            /\ UNCHANGED result
    /\ UNCHANGED <<mgrVars, cacheVars, normVars, op, refresh, retries, hc, calls, raw,
                   filtered, invoked, t0, begun>>

\* The sleep ends: the next attempt is made, or the retries are exhausted
Wake(t) ==
    /\ pc[t] = "sleep"
    /\ IF MoreAttempts(t)
       THEN /\ calls' = [calls EXCEPT ![t] = Append(@, ToolCall(t))]
            /\ pc' = [pc EXCEPT ![t] = "call"]
            /\ UNCHANGED result
       ELSE /\ pc' = [pc EXCEPT ![t] = "failed"]
            /\ result' = [result EXCEPT ![t] = Err("exhausted", last_err[t])]
            /\ UNCHANGED calls
    /\ cache' = IF op[t] = "holdings" /\ ~MoreAttempts(t) THEN CacheKept ELSE cache
    /\ UNCHANGED <<mgrVars, cacheLock, lastWrite, fetched, normVars, op, refresh, retries,
                   hc, attempt, last_err, sleeps, raw, filtered, invoked, t0, begun>>

\* (a cache that is filled record by record: the first record is in, the rest
\* not yet)
StoredPartly(t) ==
    IF filtered[t].items = <<>> THEN filtered[t] ELSE PList(<<filtered[t].items[1]>>)
\* (an endpoint that caches the lists that hold records only)
StoredIfAny(t) == IF filtered[t].items = <<>> THEN cache ELSE filtered[t]
\* app.state.holdings_cache = filtered: the whole list, in one assignment
Stored(t) == filtered[t]

\* async with app.state.holdings_cache_lock
CacheAcquire(t) ==
    /\ pc[t] = "save"
    /\ cacheLock = 0
    /\ cacheLock' = t
    /\ pc' = [pc EXCEPT ![t] = "saving"]
    /\ UNCHANGED <<mgrVars, normVars, cache, lastWrite, fetched, op, refresh, retries,
                   hc, attempt, last_err, calls, sleeps, raw, filtered, invoked, result,
                   t0, begun>>

\* app.state.holdings_cache = filtered, and the response
CacheStore(t) ==
    /\ pc[t] = "saving"
    /\ cache' = Stored(t)
    /\ lastWrite' = filtered[t]
    /\ cacheLock' = 0
    /\ fetched' = TRUE
    /\ pc' = [pc EXCEPT ![t] = "done"]
    /\ result' = [result EXCEPT ![t] = Ok(filtered[t])]
    /\ UNCHANGED <<mgrVars, normVars, op, refresh, retries, hc, attempt, last_err,
                   calls, sleeps, raw, filtered, invoked, t0, begun>>

\* close() up to its first suspension: nothing to do without a handle, else
\* __aexit__ is awaited under the lock
CloseAcquire(t) ==
    /\ pc[t] = "closing"
    /\ LockFree
    /\ IF client # 0
       THEN /\ lock' = t
            /\ exits' = [exits EXCEPT ![client] = @ + 1]
            /\ pc' = [pc EXCEPT ![t] = "aexit"]
            /\ UNCHANGED result
       ELSE /\ pc' = [pc EXCEPT ![t] = "done"]
            /\ result' = [result EXCEPT ![t] = Ok(PNone)]
            /\ UNCHANGED <<lock, exits>>
    /\ UNCHANGED <<client, hstate, closes, born>>
    /\ UNCHANGED <<cacheVars, normVars, op, refresh, retries, hc, attempt, last_err,
                   calls, sleeps, raw, filtered, invoked, t0, begun>>

\* __aexit__ returns (ok) or raises: the finally clause drops the handle
AexitEnd(t, ok) ==
    /\ pc[t] = "aexit"
    /\ hstate' = [hstate EXCEPT ![client] = "closed"]
    /\ client' = ClientAfterClose(ok)
    /\ lock' = 0
    /\ closes' = closes + 1
    /\ pc' = [pc EXCEPT ![t] = IF ok THEN "done" ELSE "failed"]
    /\ result' = [result EXCEPT ![t] = IF ok THEN Ok(PNone) ELSE Err("teardown", 0)]
    /\ UNCHANGED <<exits, born>>
    /\ UNCHANGED <<cacheVars, normVars, op, refresh, retries, hc, attempt, last_err,
                   calls, sleeps, raw, filtered, invoked, t0, begun>>

\* A request arrives at an endpoint
Request(t) == Begin(t, AppRequests)
\* A method of the manager is called
Call(t) == Begin(t, MgrRequests)

AexitOk(t) == AexitEnd(t, TRUE)
AexitFail(t) == AexitEnd(t, FALSE)

Next ==
    \E t \in Tasks :
        \/ Request(t)
        \/ _ensure_client(t)
        \/ AenterOk(t)
        \/ AenterFail(t)
        \/ CallOk(t)
        \/ CallFail(t)
        \/ Wake(t)
        \/ CacheAcquire(t)
        \/ CacheStore(t)
        \/ CloseAcquire(t)
        \/ AexitOk(t)
        \/ AexitFail(t)

Spec == Init /\ [][Next]_vars

NextMgr ==
    \E t \in Tasks :
        \/ Call(t)
        \/ _ensure_client(t)
        \/ AenterOk(t)
        \/ AenterFail(t)
        \/ CallOk(t)
        \/ CallFail(t)
        \/ Wake(t)
        \/ CloseAcquire(t)
        \/ AexitOk(t)
        \/ AexitFail(t)

SpecMgr == Init /\ [][NextMgr]_vars

(***************************************************************************)
(* The pure functions on their own: a tool result is drawn from NormInputs *)
(* and handed to _normalize_tool_result, twice over, and to extract_url    *)
(***************************************************************************)
MaxLen == 2

\* Texts that are no JSON: without a URL, with a bare URL, with a marked URL, with
\* a bare URL before a marked one, with a marker that no URL follows
PlainTexts == {PText(<<>>), PText(<<"w">>)}
UrlsOf(u) == {PText(<<"w", u, "w">>), PText(<<"w", Marker, u>>)}
UrlTexts == UNION {UrlsOf(u) : u \in Urls}
           \cup {PText(<<"https://b", Marker, "http://a">>), PText(<<Marker, "w", "https://b">>)}
Texts == PlainTexts \cup UrlTexts

Scalars == {PNone, PNum(0), PNum(5)}
Leaves == Texts \cup Scalars
FewLeaves == {PText(<<"w">>), PText(<<"w", Marker, "http://a">>), PNum(5)}

\* The lists of at most MaxLen elements of S
ListsOf(S) == {PList(q) : q \in UNION {[1 .. n -> S] : n \in 0 .. MaxLen}}

\* Mappings of one key, and of a text and a url key
OneKey == {"text", "message", "url", "data", "content", "structured_content",
           "holdings", "link"}
DictOf(key, v) == PDict([x \in {key} |-> v])
Dicts1(S) == {DictOf(key, v) : key \in OneKey, v \in S}
Dicts2 == {PDict([text |-> a, url |-> b]) : a \in FewLeaves, b \in FewLeaves}

\* JSON values of one level, and the strs that are their JSON text
Json1 == Leaves \cup Dicts1(FewLeaves) \cup Dicts2 \cup ListsOf(FewLeaves)
JsonTexts1 == {PJson(v) : v \in Json1}

\* Content blocks: with a text, and without one (an image block)
ImageBlock == PObj([type |-> PText(<<"image">>), data |-> PText(<<"w">>)])
BlockTexts == Texts \cup {PJson(v) : v \in Scalars \cup Dicts1({PNum(5)}) \cup ListsOf({PNum(5)})}
             \cup {PJson(PJson(PNum(5))), PJson(PText(<<"w">>))}
Blocks == {TextBlock(s) : s \in BlockTexts} \cup {ImageBlock}
\* CallToolResult envelopes: of no block, of one block, of two
Envelopes == {PObj([content |-> PList(q), data |-> PNone, structured_content |-> PNone]) :
                q \in {<<>>} \cup {<<b>> : b \in Blocks}
                      \cup {<<TextBlock(PText(<<"w">>)), b>> : b \in Blocks}}

\* The same envelopes as mappings, as a JSON decoder yields them
DictBlocks == {PDict([text |-> s]) : s \in BlockTexts}
              \cup {PDict([type |-> PText(<<"image">>)]), PText(<<"w">>), PNum(5)}
DictEnvelopes == {PDict([content |-> PList(q)]) : q \in {<<>>} \cup {<<b>> : b \in DictBlocks}}

\* A second level: lists of mappings, mappings of mappings and lists, the JSON
\* texts of JSON texts and of envelopes, envelopes in envelopes
UrlDicts == Dicts1({PText(<<"w", Marker, "http://a">>), PText(<<"w">>)})
Nested == ListsOf({DictOf("url", PText(<<"https://b">>)), DictOf("text", PText(<<"w">>)),
                   DictOf("link", PText(<<"http://a">>))})
          \cup {PList(<<PList(<<d>>)>>) : d \in UrlDicts}
          \cup Dicts1(UrlDicts \cup {PList(<<d>>) : d \in UrlDicts})
          \cup {PList(<<e>>) : e \in Envelopes}
Json2 == {PJson(x) : x \in JsonTexts1 \cup DictEnvelopes \cup Nested}
Wrapped == {TextBlock(PJson(e)) : e \in DictEnvelopes}
Envelopes2 == {PObj([content |-> PList(<<b>>), data |-> PNone, structured_content |-> PNone]) :
                 b \in Wrapped}
               \cup {PDict([content |-> PList(<<PDict([text |-> e])>>)]) : e \in DictEnvelopes}

Byteses == {PBytes(<<"w">>), PBytes(<<"w", "http://a">>), PBytes(<<BadByte, "http://a">>)}
            \cup {PList(<<PBytes(<<BadByte>>), PText(<<"https://b">>)>>)}

NormInputs == Json1 \cup JsonTexts1 \cup Envelopes \cup DictEnvelopes \cup Nested \cup Json2
              \cup Envelopes2 \cup Byteses \cup Blocks

InitNorm ==
    /\ AppInit
    /\ nin \in NormInputs
    /\ nout = NoOut
    /\ nphase = "in"

\* data = await self._normalize_tool_result(raw)
Normalize ==
    /\ nphase = "in"
    /\ nout' = [nout EXCEPT !.n1 = _normalize_tool_result(nin)]
    /\ nphase' = "once"
    /\ UNCHANGED <<mgrVars, cacheVars, taskVars, nin>>

\* ... and the same of its own result
NormalizeAgain ==
    /\ nphase = "once"
    /\ nout' = [nout EXCEPT !.n2 = _normalize_tool_result(nout.n1)]
    /\ nphase' = "twice"
    /\ UNCHANGED <<mgrVars, cacheVars, taskVars, nin>>

\* url = extract_url(result)
ExtractUrl ==
    /\ nphase = "in"
    /\ nout' = [nout EXCEPT !.url = extract_url(nin)]
    /\ nphase' = "url"
    /\ UNCHANGED <<mgrVars, cacheVars, taskVars, nin>>

NextNorm == Normalize \/ NormalizeAgain \/ ExtractUrl

SpecNorm == InitNorm /\ [][NextNorm]_vars

(***************************************************************************)
(* The holdings endpoint on its own: one client's requests, one after the  *)
(* other, to a get_holdings tool whose answer is drawn from HoldingsAnswers *)
(***************************************************************************)
\* A mapping with the key and one of the values, or without the key
Opt(key, vals) == {<<>>} \cup {key :> v : v \in vals}

\* The holdings the tool may list: each key absent or with one of its values
\* (an int, a float, a numeric text, an empty text, a text that is no number,
\* null)
HoldingsItems ==
    {PDict(a @@ b @@ c @@ d @@ e @@ f @@ g @@ h) :
        a \in Opt("price", {PNum(110), PJson(PNum(110)), PText(<<"n/a">>)}),
        b \in Opt("average_price", {PNum(100), PFloat(100)}),
        c \in Opt("quantity", {PNum(10), PText(<<>>), PText(<<"n/a">>)}),
        d \in Opt("close_price", {PNum(0), PNum(100), PJson(PNum(0)), PNone}),
        e \in Opt("pnl", {PNum(7)}),
        f \in Opt("day_change", {PJson(PNum(3))}),
        g \in Opt("day_change_percentage", {PNum(2)}),
        h \in Opt("last_price", {PNum(120)})}

\* Lists of several elements, some of them no mappings, and answers that are no
\* list: a mapping with a holdings key, one holding, a text, null
HoldingsShapes ==
    {PList(<<>>), PList(<<HoldingA, HoldingB>>), PList(<<PNum(5), HoldingA>>),
     PList(<<HoldingA, PNum(5), HoldingB>>), PList(<<HoldingB, PText(<<"w">>)>>),
     PDict([holdings |-> PList(<<HoldingB>>)]), HoldingB, PNone}

HoldingsAnswers ==
    {Envelope(PJson(PList(<<i>>))) : i \in HoldingsItems}
    \cup {Envelope(PJson(x)) : x \in HoldingsShapes}
    \cup {Envelope(PText(<<"w">>))}

InitEnrich ==
    /\ AppInit
    /\ nin \in HoldingsAnswers
    /\ nout = NoOut
    /\ nphase = "holdings"

\* A request arrives at /api/mcp/holdings
HoldingsRequest(t) ==
    Begin(t, {[op |-> "holdings", refresh |-> b, retries |-> DefaultRetries] : b \in BOOLEAN})

NextEnrich ==
    \E t \in {1} :
        \/ HoldingsRequest(t)
        \/ _ensure_client(t)
        \/ AenterOk(t)
        \/ CallOk(t)
        \/ CacheAcquire(t)
        \/ CacheStore(t)

SpecEnrich == InitEnrich /\ [][NextEnrich]_vars

(***************************************************************************)
(* parse_thesis_content (main.py). The markdown text is the sequence of    *)
(* its lines (joined by newlines); a line is a record of its kind: the     *)
(* four section headings h1..h4, another "###" heading h, a "## " heading   *)
(* hh, a "---" rule, a blank line, a line of text, a table row of three    *)
(* cells, the "**Recommendation: ...**" line rec, the "**Caveats:**" line  *)
(* cav, a numbered caveat num, the line "Despite these caveats" and the    *)
(* line gen of "Analysis generated on <date>". A score cell is the         *)
(* sequence of its tokens: the glyph literals G, Y, R, X, V of the code,   *)
(* a single character c of the cleaning class, a word w.                   *)
(***************************************************************************)
Line(kind) == [kind |-> kind]
Row(name, score, just) == [kind |-> "row", name |-> name, score |-> score, just |-> just]
\* The str of the lines q
Text(q) == [k |-> "text", lines |-> q]

\* The lines at which a section ends: \n### and \n##
Headings == {"h1", "h2", "h3", "h4", "h", "hh"}

RECURSIVE FirstLine(_, _, _)
\* The first line of q at or after i whose kind is one of kinds, 0 when none
FirstLine(q, kinds, i) ==
    IF i > Len(q) THEN 0
    ELSE IF q[i].kind \in kinds THEN i ELSE FirstLine(q, kinds, i + 1)

\* (.*?)(?=stop|$) from line i on: the lines before the first stop line
Until(q, i, stops) ==
    LET j == FirstLine(q, stops, i)
    IN SubSeq(q, i, IF j = 0 THEN Len(q) ELSE j - 1)

RECURSIVE FirstPara(_, _, _)
\* The first line of q at or after i of the kind that a blank line and one more
\* line follow (the pattern "...\n\n"), 0 when none
FirstPara(q, kind, i) ==
    IF i + 2 > Len(q) THEN 0
    ELSE IF q[i].kind = kind /\ q[i + 1].kind = "blank" THEN i
    ELSE FirstPara(q, kind, i + 1)

\* The text after the blank line that follows line i, up to the first stop line:
\* the line right after the blank one is taken whatever it is, its newline
\* being behind the match
Para(q, i, stops) == <<q[i + 2]>> \o Until(q, i + 3, stops)

RECURSIVE StripLines(_)
\* .strip() of a text of several lines
StripLines(q) ==
    IF q = <<>> THEN q
    ELSE IF q[1].kind = "blank" THEN StripLines(Tail(q))
    ELSE IF q[Len(q)].kind = "blank" THEN StripLines(SubSeq(q, 1, Len(q) - 1))
    ELSE q

\* (.*?) after the heading, the section's lines; <<>> when there is no heading
Section(q, heading, stops) ==
    IF FirstLine(q, {heading}, 1) = 0 THEN <<>>
    ELSE Until(q, FirstLine(q, {heading}, 1) + 1, stops)

\* re.findall of the rows of three cells
table_rows(section) == SelectSeq(section, LAMBDA l : l.kind = "row")

Glyphs == {"G", "Y", "R", "X", "V"}
\* The score of a cell: the label of its glyph, else its text without the
\* characters of the glyphs, else Low
score_clean(score) ==
    LET has(g) == \E i \in 1 .. Len(score) : score[i] = g
        label == IF has("G") THEN <<"High">>
                 ELSE IF has("Y") THEN <<"Medium">>
                 ELSE IF has("R") \/ has("X") THEN <<"Low">>
                 ELSE IF has("V") THEN <<"High">>
                 ELSE score
        cleaned == SelectSeq(label, LAMBDA c : c \notin Glyphs \cup {"c"})
    IN IF cleaned # <<>> THEN cleaned
       ELSE IF has("G") \/ has("V") THEN <<"High">>
       ELSE IF has("Y") THEN <<"Medium">>
       ELSE <<"Low">>

\* The names of the cells: headers, separators, bold names and plain ones
HeaderNames == {"Metric", "Category", "Score", "---"}
BoldNames == {"**Growth**", "**Moat**"}
\* name.replace('**', '').strip()
Unbold(name) ==
    IF name = "**Growth**" THEN "Growth" ELSE IF name = "**Moat**" THEN "Moat" ELSE name

Entry(row) == [score |-> score_clean(row.score), justification |-> row.just]

RECURSIVE MetricRows(_, _, _, _)
\* The loop over the rows of section 2
MetricRows(rows, i, current_category, metrics) ==
    IF i > Len(rows) THEN metrics
    ELSE LET row == rows[i]
         IN IF row.name \in HeaderNames \ {"Score"}
            THEN MetricRows(rows, i + 1, current_category, metrics)
            ELSE IF row.name \in BoldNames
            THEN MetricRows(rows, i + 1, Unbold(row.name),
                            IF Unbold(row.name) \in DOMAIN metrics THEN metrics
                            ELSE With(metrics, Unbold(row.name), <<>>))
            ELSE MetricRows(rows, i + 1, current_category,
                            With(metrics, current_category,
                                 With(IF current_category \in DOMAIN metrics
                                      THEN metrics[current_category] ELSE <<>>,
                                      row.name, Entry(row))))

RECURSIVE MatrixRows(_, _, _)
\* The loop over the rows of section 3
MatrixRows(rows, i, decision_matrix) ==
    IF i > Len(rows) THEN decision_matrix
    ELSE IF rows[i].name \in HeaderNames \ {"Metric"}
    THEN MatrixRows(rows, i + 1, decision_matrix)
    ELSE MatrixRows(rows, i + 1, With(decision_matrix, Unbold(rows[i].name), Entry(rows[i])))

RECURSIVE CaveatLines(_, _, _, _)
\* The loop over the lines of the caveats: a blank line and a numbered line end
\* the caveat in hand
CaveatLines(lines, i, current_caveat, caveats) ==
    LET flushed == IF current_caveat # <<>> THEN Append(caveats, current_caveat) ELSE caveats
    IN IF i > Len(lines) THEN flushed
       ELSE IF lines[i].kind = "blank" THEN CaveatLines(lines, i + 1, <<>>, flushed)
       ELSE IF lines[i].kind = "num" THEN CaveatLines(lines, i + 1, <<lines[i]>>, flushed)
       ELSE CaveatLines(lines, i + 1, Append(current_caveat, lines[i]), caveats)

\* generated_at = None, as a value of the sort of a date
NoDate == "None"

\* (a parser whose summary starts as the placeholder of the except clause)
PlaceholderSummary == <<Line("could not be parsed")>>
\* executive_summary = ""
EmptySummary == <<>>

\* The record of the except clause
CouldNotParse ==
    [executiveSummary |-> <<Line("could not be parsed")>>, recommendation |-> "Unknown",
     recommendationSummary |-> <<Line("refer to the original")>>, caveats |-> <<>>,
     generatedAt |-> NoDate, metrics |-> <<>>, decisionMatrix |-> <<>>]

\* The body of the try: re.search raises TypeError on a content that is no str
ParseBody(content) ==
    IF content.k # "text" THEN Raised
    ELSE LET q == content.lines
             s1 == FirstPara(q, "h1", 1)
             executive_summary == IF s1 = 0 THEN EmptySummary
                                  ELSE StripLines(Para(q, s1, Headings))
             verdict == Section(q, "h4", Headings \cup {"rule"})
             r == FirstLine(verdict, {"rec"}, 1)
             rs == FirstPara(verdict, "rec", 1)
             c == FirstLine(verdict, {"cav"}, 1)
             g == FirstLine(q, {"gen"}, 1)
         IN [executiveSummary |-> executive_summary,
                  recommendation |-> IF r = 0 THEN "Unknown" ELSE verdict[r].val,
                  recommendationSummary |->
                      IF rs = 0 THEN <<>> ELSE StripLines(Para(verdict, rs, {"cav"})),
                  caveats |->
                      IF c = 0 \/ c = Len(verdict) THEN <<>>
                      ELSE CaveatLines(StripLines(Until(verdict, c + 1, {"despite"})),
                                       1, <<>>, <<>>),
                  generatedAt |-> IF g = 0 THEN NoDate ELSE q[g].date,
                  metrics |-> MetricRows(table_rows(Section(q, "h2", Headings)), 1,
                                         "General", <<>>),
                  decisionMatrix |-> MatrixRows(table_rows(Section(q, "h3", Headings)),
                                                1, <<>>)]

parse_thesis_content(content) == TryExcept(ParseBody(content), CouldNotParse)

(***************************************************************************)
(* parse_thesis_content on its own: a content is drawn from ThesisInputs   *)
(***************************************************************************)
MaxLines == 3

RecLine == [kind |-> "rec", val |-> "Buy"]
GenLine == [kind |-> "gen", date |-> "2025-01-31"]
\* The lines of the texts
ThesisLines ==
    {Line(kd) : kd \in {"h1", "h2", "h3", "h4", "hh", "rule", "blank", "text", "cav",
                        "num", "despite"}}
    \cup {RecLine, GenLine, Row("ROE", <<"G", "w">>, "j"), Row("**Growth**", <<"w">>, "j")}
\* Score cells: each glyph alone, a glyph with a word, two glyphs, a word alone,
\* a cleaned character alone, an empty cell
ScoreCells == {<<g>> : g \in Glyphs} \cup {<<"Y", "w">>, <<"R", "G">>, <<"w">>, <<"c">>, <<>>}
\* A text with all its sections, the cell of one metric and one decision varying
Thesis(cell) ==
    Text(<<Line("h1"), Line("blank"), Line("text"), Line("blank"),
           Line("h2"), Row("Metric", <<"w">>, "Justification"), Row("---", <<"w">>, "---"),
           Row("**Growth**", <<"w">>, "j"), Row("ROE", cell, "j"), Row("Debt", <<"Y">>, "j"),
           Line("h3"), Row("Category", <<"w">>, "Justification"),
           Row("**Moat**", cell, "j"),
           Line("h4"), Line("blank"), RecLine, Line("blank"), Line("text"),
           Line("cav"), Line("num"), Line("text"), Line("blank"), Line("num"),
           Line("despite"), Line("text"), Line("rule"), GenLine>>)

ThesisInputs ==
    {Text(q) : q \in UNION {[1 .. n -> ThesisLines] : n \in 0 .. MaxLines}}
    \cup {Thesis(cell) : cell \in ScoreCells}
    \cup {PNone}

InitThesis ==
    /\ AppInit
    /\ nin \in ThesisInputs
    /\ nout = NoOut
    /\ nphase = "content"

\* parse_thesis_content(content)
Parse ==
    /\ nphase = "content"
    /\ nout' = parse_thesis_content(nin)
    /\ nphase' = "parsed"
    /\ UNCHANGED <<mgrVars, cacheVars, taskVars, nin>>

NextThesis == Parse

SpecThesis == InitThesis /\ [][NextThesis]_vars

(***************************************************************************)
(* The claims                                                              *)
(***************************************************************************)
\* The callers of get_login_url and get_holdings that are back from
\* _ensure_client with a handle
Holders == {t \in Tasks : op[t] \in {"login", "get_holdings", "holdings"} /\ hc[t] # 0}
\* Those whose _ensure_client has ended, with a handle or with __aenter__'s error
PastEnsure == {t \in Tasks : op[t] \in {"login", "get_holdings", "holdings"}
                             /\ pc[t] \in {"call", "sleep", "save", "saving", "done", "failed"}
                             /\ invoked[t] = (op[t] # "login")}
NoTeardownYet == \A h \in Handles : exits[h] = 0

\* C1: as long as no close() has begun a teardown, the concurrent first-time
\* callers of get_login_url and get_holdings cause one Client creation and one
\* __aenter__ between them, the callers that hold a handle hold that one, and
\* when its __aenter__ has not raised every caller back from _ensure_client
\* holds it.
C1_SingleEstablishment ==
    NoTeardownYet =>
        /\ Creates <= 1
        /\ \A t \in Holders : hc[t] = 1 /\ hc[t] = client
        /\ hstate[1] # "failed" => \A t \in PastEnsure : Creates = 1 /\ hc[t] = 1

\* C1 witness: every task is a first-time caller holding the one handle, its
\* call in flight
C1_Witness ==
    /\ begun = NTasks
    /\ Creates = 1
    /\ \A t \in Tasks : pc[t] = "call" /\ hc[t] = 1
    /\ \E t \in Tasks : op[t] = "login"
    /\ \E t \in Tasks : op[t] = "get_holdings"

\* C2: at most one task is inside a connection establishment (awaiting
\* __aenter__) or a teardown (awaiting __aexit__), and that task holds the lock.
C2_OneInsideTheLock ==
    /\ Cardinality({t \in Tasks : pc[t] \in {"aenter", "aexit"}}) <= 1
    /\ \A t \in Tasks : pc[t] \in {"aenter", "aexit"} => lock = t

\* C2 witness: a teardown is in progress while another caller waits to establish
C2_Witness ==
    \E t, u \in Tasks : pc[t] = "aexit" /\ pc[u] = "ensure" /\ op[u] # "close"

\* The get_holdings calls all of whose attempts so far have raised, the retries
\* used up
AllFailed == {t \in Tasks : op[t] = "get_holdings" /\ attempt[t] = retries[t]}

\* C3: get_holdings never makes more than retries tool calls, and once retries
\* attempts have raised it has made exactly retries calls and sleeps or has
\* failed, reporting the exhausted retries: it has returned no value.
C3_ExactlyRetriesAttempts ==
    /\ \A t \in Tasks : op[t] = "get_holdings" => Len(calls[t]) <= retries[t]
    /\ \A t \in AllFailed :
        /\ Len(calls[t]) = retries[t]
        /\ pc[t] \in {"sleep", "failed"}
        /\ result[t].st # "ok"
        /\ pc[t] = "failed" => result[t].kind = "exhausted"
    /\ \A t \in Tasks :
        op[t] = "get_holdings" /\ result[t].kind = "exhausted" => t \in AllFailed

\* C3 witness: get_holdings() with the default retries has failed after 3 calls
C3_Witness ==
    \E t \in Tasks : /\ op[t] = "get_holdings" /\ retries[t] = DefaultRetries
                     /\ pc[t] = "failed" /\ result[t].kind = "exhausted"
                     /\ Len(calls[t]) = 3

\* C4: when the first attempt of get_holdings succeeds, get_holdings has
\* returned the list read from that answer, after one tool call and no sleep.
C4_FirstSuccessReturns ==
    \A t \in Tasks :
        op[t] = "get_holdings" /\ raw[t] # PNone /\ attempt[t] = 0 =>
            /\ pc[t] = "done"
            /\ result[t] = Ok(HoldingsList(_normalize_tool_result(raw[t])))
            /\ Len(calls[t]) = 1
            /\ sleeps[t] = <<>>

\* C4 witness: a first attempt has answered a list of one holding
C4_Witness ==
    \E t \in Tasks : /\ op[t] = "get_holdings" /\ attempt[t] = 0 /\ pc[t] = "done"
                     /\ result[t].v = PList(<<HoldingA>>)

\* C5: a holdings request with refresh=true calls mcp_manager.get_holdings; one
\* with refresh=false that begins after a fresh fetch has returned does not,
\* and returns the list of the most recent cache write.
C5_CacheServes ==
    \A t \in Tasks :
        op[t] = "holdings" =>
            /\ refresh[t] => invoked[t]
            /\ ~refresh[t] /\ t0[t].fetched =>
                /\ ~invoked[t]
                /\ calls[t] = <<>>
                /\ pc[t] = "done"
                /\ result[t] = Ok(t0[t].last)

\* C5 witness: a refresh=false request was served a cached list of one holding
C5_Witness ==
    \E t \in Tasks : /\ op[t] = "holdings" /\ ~refresh[t] /\ t0[t].fetched
                     /\ pc[t] = "done" /\ ~invoked[t]
                     /\ Len(result[t].v.items) = 1

\* C6: a close() that finds no handle changes nothing of the manager and
\* returns; every close() leaves the manager without handle as it ends; and
\* no handle is torn down twice (a closed handle was torn down once).
C6_CloseIdempotent ==
    /\ [](\A h \in Handles : exits[h] <= 1 /\ (hstate[h] = "closed" => exits[h] = 1))
    /\ [][\A t \in Tasks :
            op[t] = "close" /\ pc[t] \in {"closing", "aexit"} /\ pc'[t] \in {"done", "failed"} =>
                /\ client' = 0
                /\ lock' = 0
                /\ pc[t] = "closing" => (pc'[t] = "done" /\ result'[t] = Ok(PNone)
                                         /\ UNCHANGED mgrVars)]_vars

\* C6 witness: a close() has returned from a manager without handle after an
\* earlier close() tore the handle down
C6_Witness ==
    \E t \in Tasks : /\ op[t] = "close" /\ pc[t] = "done" /\ t0[t].closes = 1
                     /\ closes = 1 /\ exits[1] = 1 /\ client = 0

\* C7: the manager's handle is never one that close() has torn down, also after
\* a teardown that raised, and the handle a call works with was created after
\* every close() that had ended when the call began; no tool call is made
\* without a handle.
C7_NewHandleAfterClose ==
    /\ client # 0 => hstate[client] # "closed"
    /\ \A t \in Tasks :
        /\ hc[t] # 0 => born[hc[t]] >= t0[t].closes
        /\ calls[t] # <<>> => hc[t] # 0

\* C7 witness: a call begun after a close() whose teardown raised is in flight
\* on a new handle
C7_Witness ==
    \E t, u \in Tasks :
        /\ op[u] = "close" /\ pc[u] = "failed"
        /\ op[t] # "close" /\ pc[t] = "call" /\ t0[t].closes = 1
        /\ hc[t] = 2 /\ born[2] = 1 /\ hstate[1] = "closed"

\* C8: get_login_url makes one tool call, of login with no arguments (none when
\* the connection could not be established); when it returns, it returns the
\* non-empty URL that extract_url found in that call's result; when the result
\* holds no URL it fails with an error, and it never returns None or "".
C8_LoginUrl ==
    \A t \in Tasks :
        op[t] = "login" =>
            /\ calls[t] \in {<<>>, <<[tool |-> "login", args |-> PDict(<<>>)]>>}
            /\ pc[t] = "done" =>
                /\ Len(calls[t]) = 1
                /\ result[t].st = "ok"
                /\ result[t].v = PText(<<extract_url(raw[t])>>)
                /\ extract_url(raw[t]) \in Urls
            /\ pc[t] = "failed" =>
                /\ result[t].st = "err"
                /\ result[t].kind # "connect" => Len(calls[t]) = 1
            /\ raw[t] # PNone /\ extract_url(raw[t]) = NoUrl =>
                pc[t] = "failed" /\ result[t].kind = "no_url"

\* C8 witness: one login has returned a URL and another has failed for want of one
C8_Witness ==
    \E t, u \in Tasks :
        /\ op[t] = "login" /\ pc[t] = "done" /\ result[t].v = PText(<<"http://a">>)
        /\ op[u] = "login" /\ pc[u] = "failed" /\ result[u].kind = "no_url"

\* A value that normalization leaves alone: no JSON text, and no envelope with
\* a first content block
IsEnvelope(x) ==
    \/ HasAttr(x, "content") /\ IsList(x.a["content"]) /\ x.a["content"].items # <<>>
    \/ /\ IsDict(x) /\ HasKey(x, "content")
       /\ IsList(x.m["content"]) /\ x.m["content"].items # <<>>
       /\ IsDict(x.m["content"].items[1])
Plain(x) == x.k # "jstr" /\ ~IsEnvelope(x)

\* C9 as stated: normalizing a normalized value changes nothing.
C9_Idempotent == nphase = "twice" => nout.n2 = nout.n1

\* C9 amended: normalization takes off one envelope and one JSON encoding, so
\* normalizing a normalized value changes nothing exactly when that value is
\* no JSON text and no envelope with a first content block.
C9_IdempotentIffPlain == nphase = "twice" => (nout.n2 = nout.n1 <=> Plain(nout.n1))

\* C9 witness: an envelope whose text is the JSON of a list normalizes to the
\* list, and the list to itself
C9_Witness ==
    /\ nphase = "twice"
    /\ nin \in Envelopes
    /\ nout.n1 = PList(<<PNum(5)>>)
    /\ nout.n2 = nout.n1

\* The URLs in the text of x
UrlsIn(x) == {Toks(x)[i] : i \in 1 .. Len(Toks(x))} \cap Urls

RECURSIVE Embedded(_)
\* The URLs of x at the places of the supported shapes: in a string (or bytes
\* that are the encoding of one), under the six keys of a mapping, in the
\* elements of a list, in the attributes of an object
Embedded(x) ==
    CASE IsStr(x) -> UrlsIn(x)
      [] x.k = "bytes" -> IF Decode(x) = Raised THEN {} ELSE UrlsIn(x)
      [] IsDict(x) -> UNION {Embedded(x.m[key]) : key \in DOMAIN x.m \cap
                               {"text", "message", "url", "data", "content",
                                "structured_content"}}
      [] IsList(x) -> UNION {Embedded(x.items[i]) : i \in 1 .. Len(x.items)}
      [] x.k = "obj" ->
           UNION {Embedded(x.a[a]) : a \in DOMAIN x.a \cap
                    ((IF Truthy(GetAttr(x, "text")) THEN {"text"} ELSE {"message"})
                     \cup {"content", "data", "structured_content"})}
      [] OTHER -> {}

\* C10: extract_url returns a URL of the shape whenever the shape embeds one
\* (in a string, under a supported key, in a nested list or mapping), the
\* embedded URL when there is one only, and None when the shape holds no URL.
C10_ExtractUrl ==
    nphase = "url" =>
        /\ UrlsIn(nin) = {} => nout.url = NoUrl
        /\ nout.url # NoUrl => nout.url \in UrlsIn(nin)
        /\ Embedded(nin) # {} => nout.url \in Embedded(nin)
        /\ \A u \in Urls :
            nin \in UrlsOf(u) \cup {DictOf("url", v) : v \in UrlsOf(u)}
                    \cup {DictOf("text", PText(<<"w", Marker, u>>))}
                    \cup {PList(<<DictOf("text", PText(<<"w">>)), DictOf("url", PText(<<u>>))>>)}
                => nout.url = u

\* C10 witness: the URL of the second mapping of a list was returned
C10_Witness ==
    /\ nphase = "url"
    /\ nin = PList(<<DictOf("text", PText(<<"w">>)), DictOf("url", PText(<<"https://b">>))>>)
    /\ nout.url = "https://b"

\* An envelope whose content collection is empty
EmptyContent(x) ==
    \/ HasAttr(x, "content") /\ x.a["content"] = PList(<<>>)
    \/ IsDict(x) /\ HasKey(x, "content") /\ x.m["content"] = PList(<<>>)
\* A mapping envelope whose first content block is no mapping (first.get raises)
FirstNoMapping(x) ==
    /\ IsDict(x) /\ HasKey(x, "content")
    /\ IsList(x.m["content"]) /\ x.m["content"].items # <<>>
    /\ ~IsDict(x.m["content"].items[1])
\* An envelope object whose first content block has no text
FirstNoText(x) ==
    /\ HasAttr(x, "content")
    /\ IsList(x.a["content"]) /\ x.a["content"].items # <<>>
    /\ ~HasAttr(x.a["content"].items[1], "text")

\* C11: _normalize_tool_result and extract_url return a value and never raise:
\* the envelope of an empty content list and the mapping envelope whose first
\* block cannot be read are returned unchanged, the envelope whose first block
\* has no text yields that block, a text that is no JSON is returned as it is,
\* and extract_url returns a URL or None, None for bytes it cannot decode.
C11_NeverRaises ==
    /\ nphase \in {"once", "twice"} =>
        /\ nout.n1 # Raised
        /\ EmptyContent(nin) \/ FirstNoMapping(nin) => nout.n1 = nin
        /\ FirstNoText(nin) => nout.n1 = nin.a["content"].items[1]
        /\ nin.k = "str" => nout.n1 = nin
    /\ nphase = "twice" => nout.n2 # Raised
    /\ nphase = "url" =>
        /\ nout.url \in Urls \cup {NoUrl}
        /\ nin.k = "bytes" /\ Decode(nin) = Raised => nout.url = NoUrl

\* C11 witness: a mapping envelope whose first block is a number, so that
\* first.get raised inside the try, came back unchanged
C11_Witness ==
    /\ nphase = "once"
    /\ nin = PDict([content |-> PList(<<PNum(5)>>)])
    /\ nout.n1 = nin

\* Every numeric-designated key of every record of the list l holds a number or
\* null
NumbersOnly(l) ==
    \A i \in 1 .. Len(l.items) :
        \A key \in DOMAIN l.items[i].m \cap numeric_keys :
            l.items[i].m[key] = PNone \/ IsNum(l.items[i].m[key])

\* C12: in every record the holdings endpoint returns and in every record of the
\* cache, each numeric-designated key that is present holds a number or null,
\* never a string.
C12_NumericOrNull ==
    /\ cache # PNone => NumbersOnly(cache)
    /\ \A t \in Tasks : op[t] = "holdings" /\ pc[t] = "done" => NumbersOnly(result[t].v)

\* The holdings that a request's fresh fetch received from get_holdings
Received(t) == HoldingsList(_normalize_tool_result(raw[t])).items
\* The requests whose fresh fetch received mappings only and has built filtered
\* from them, record by record
Enriched ==
    {t \in Tasks : /\ op[t] = "holdings" /\ invoked[t] /\ filtered[t] # PNone
                    /\ \A i \in 1 .. Len(Received(t)) : IsDict(Received(t)[i])}
\* A source value that is a number or the text of one
Numeric(v) == IsNum(v) \/ (v.k = "jstr" /\ IsNum(v.v))
\* The price of a source record: its price, else its last or close price
PriceOf(item) ==
    IF "price" \in DOMAIN item THEN item["price"]
    ELSE Or(Get(item, "last_price"), Get(item, "close_price"))
\* The field is in the output record and was not in the source record
Computed(item, out, field) == field \notin DOMAIN item /\ field \in DOMAIN out

\* C13: a derived field of the source record is never replaced by a computed
\* value (it is passed on, as a number), and a derived field is computed only
\* from inputs that the source record supplies as numeric values: pnl from
\* price, average_price and quantity, day_change from price and close_price,
\* day_change_percentage from day_change (or price) and close_price.
C13_DerivedOnlyFromNumbers ==
    \A t \in Enriched : \A i \in 1 .. Len(Received(t)) :
        LET item == Received(t)[i].m
            out == filtered[t].items[i].m
        IN /\ \A field \in {"pnl", "day_change", "day_change_percentage"} \cap DOMAIN item :
                out[field] = _to_num(item[field])
           /\ Computed(item, out, "pnl") =>
                /\ Numeric(PriceOf(item))
                /\ Numeric(Get(item, "average_price"))
                /\ Numeric(Get(item, "quantity"))
           /\ Computed(item, out, "day_change") =>
                Numeric(PriceOf(item)) /\ Numeric(Get(item, "close_price"))
           /\ Computed(item, out, "day_change_percentage") =>
                /\ Numeric(Get(item, "close_price"))
                /\ Numeric(Get(item, "day_change")) \/ Numeric(PriceOf(item))

\* A close_price that is zero (0, 0.0, "0"), null or absent
NoClose(item) == Get(item, "close_price") \in {PNone, PNum(0), PFloat(0), PJson(PNum(0))}

\* C14: a record whose close_price is zero or absent and which has no
\* day_change_percentage in the source gets none in the output, no division
\* is made with a zero divisor for it, and the request does not fail.
C14_NoDivisionByZero ==
    /\ \A t \in Enriched : \A i \in 1 .. Len(Received(t)) :
        LET item == Received(t)[i].m
            out == filtered[t].items[i].m
        IN NoClose(item) /\ "day_change_percentage" \notin DOMAIN item =>
             /\ "day_change_percentage" \notin DOMAIN out
             /\ Derive(item).div = <<>>
    /\ \A t \in Tasks :
        /\ op[t] = "holdings" /\ raw[t] # PNone
        /\ \A i \in 1 .. Len(Received(t)) : IsDict(Received(t)[i])
        => pc[t] # "failed" /\ t \in Enriched

\* C14 witness: the record of {price: 110, close_price: 0} was returned with a
\* day_change of 110 and no day_change_percentage
C14_Witness ==
    /\ nin = Envelope(PJson(PList(<<PDict([price |-> PNum(110), close_price |-> PNum(0)])>>)))
    /\ pc[1] = "done" /\ invoked[1]
    /\ result[1].v = PList(<<PDict([price |-> PNum(110), close_price |-> PNum(0),
                                     tradingsymbol |-> PText(<<"-">>),
                                     day_change |-> PNum(110)])>>)

\* The complete enriched lists of the answers of the get_holdings tool
CompleteLists ==
    {PList(EnrichAll(HoldingsList(_normalize_tool_result(r)).items, 1)) : r \in HoldingsResults}

\* C15: the cache is never a partly built or mixed list: whatever the
\* interleaving of readers and refreshers, also while a refresher holds the
\* cache lock, the cache is the complete enriched list of the latest fetch that
\* wrote it, and a refresh=false cache hit returns that list as it was when
\* the request arrived.
C15_WholeLists ==
    /\ cache # PNone => cache \in CompleteLists /\ cache = lastWrite
    /\ \A t \in Tasks :
        op[t] = "holdings" /\ pc[t] = "done" /\ ~invoked[t] =>
            /\ result[t].st = "ok"
            /\ result[t].v \in CompleteLists
            /\ result[t].v = t0[t].last

\* C15 witness: a reader was served the list of two holdings while a refresher
\* holds the cache lock, about to replace that list by a list of one
C15_Witness ==
    \E t, u \in Tasks :
        /\ op[t] = "holdings" /\ pc[t] = "done" /\ ~invoked[t]
        /\ Len(result[t].v.items) = 2
        /\ op[u] = "holdings" /\ pc[u] = "saving" /\ cacheLock = u
        /\ Len(filtered[u].items) = 1

\* C16: a holdings request whose mcp_manager.get_holdings fails (the connection
\* could not be established, or the retries are exhausted) fails with an error
\* that carries the underlying one, the last error of the retries, and the step
\* that fails it leaves the cache as it was; so after a failed request the
\* list of an earlier fetch is still the cache that refresh=false is served.
C16_FailureKeepsCache ==
    /\ [](\A t \in Tasks :
            op[t] = "holdings" /\ pc[t] = "failed" /\ t0[t].fetched =>
                cache # PNone /\ cache = lastWrite)
    /\ [][\A t \in Tasks :
            op[t] = "holdings" /\ pc[t] # "failed" /\ pc'[t] = "failed" =>
                /\ cache' = cache
                /\ result'[t].st = "err"
                /\ result'[t].kind \in {"connect", "exhausted", "shape"}
                /\ result'[t].kind = "exhausted" =>
                     /\ Len(calls[t]) = DefaultRetries
                     /\ result'[t].err = DefaultRetries]_vars

\* C16 witness: a refresh has failed, its retries exhausted, and the list of the
\* earlier fetch is still in the cache
C16_Witness ==
    \E t \in Tasks :
        /\ op[t] = "holdings" /\ pc[t] = "failed" /\ result[t].kind = "exhausted"
        /\ t0[t].fetched
        /\ cache # PNone /\ cache = t0[t].last

\* C18: get_login_url and get_holdings return no value when the tool's answer
\* yields none: a login answer without URL, and a holdings answer whose
\* normalized value is neither a list nor a mapping, end the call in a failure.
C18_NoValueFromNothing ==
    \A t \in Tasks :
        /\ op[t] = "login" /\ raw[t] # PNone /\ extract_url(raw[t]) = NoUrl =>
            pc[t] = "failed" /\ result[t].st = "err"
        /\ /\ op[t] = "get_holdings" /\ raw[t] # PNone
           /\ ~IsList(_normalize_tool_result(raw[t]))
           /\ ~IsDict(_normalize_tool_result(raw[t]))
           => pc[t] = "failed" /\ result[t].st = "err"

\* C19: a get_holdings that sleeps between attempts makes no further tool call
\* once close() has torn down its handle.
C19_CloseInterruptsRetry ==
    [][\A t \in Tasks :
        op[t] = "get_holdings" /\ pc[t] = "sleep" /\ Len(calls'[t]) > Len(calls[t]) =>
            hstate[hc[t]] # "closed"]_vars

\* C20: in get_holdings a raised attempt k < retries is followed by attempt
\* k + 1 (the call made when the sleep ends), an attempt that succeeds after
\* k - 1 failures returns its own answer's list and no further call is made,
\* and the failure of the exhausted retries reports the exception of the last
\* attempt.
C20_RetrySequence ==
    /\ [](\A t \in Tasks :
            op[t] = "get_holdings" =>
                /\ pc[t] = "call" => Len(calls[t]) = attempt[t] + 1
                /\ pc[t] = "sleep" => Len(calls[t]) = attempt[t] /\ last_err[t] = attempt[t]
                /\ pc[t] = "done" =>
                     /\ Len(calls[t]) = attempt[t] + 1
                     /\ result[t] = Ok(HoldingsList(_normalize_tool_result(raw[t])))
                /\ pc[t] = "failed" /\ result[t].kind = "exhausted" =>
                     /\ Len(calls[t]) = retries[t]
                     /\ result[t].err = retries[t])
    /\ [][\A t \in Tasks :
            op[t] = "get_holdings" =>
                /\ pc[t] = "sleep" /\ pc'[t] # "sleep" =>
                     IF attempt[t] < retries[t]
                     THEN pc'[t] = "call" /\ calls'[t] = Append(calls[t], ToolCall(t))
                     ELSE pc'[t] = "failed" /\ calls'[t] = calls[t]
                /\ pc[t] = "done" /\ pc'[t] = "done" => calls'[t] = calls[t]]_vars

\* C20 witness: the second attempt of a get_holdings succeeded after the first
\* had raised, and its list of one holding was returned after two calls
C20_Witness ==
    \E t \in Tasks :
        /\ op[t] = "get_holdings" /\ pc[t] = "done" /\ attempt[t] = 1
        /\ last_err[t] = 1 /\ Len(calls[t]) = 2
        /\ result[t] = Ok(PList(<<HoldingA>>))

SevenFields == {"executiveSummary", "recommendation", "recommendationSummary", "caveats",
                "generatedAt", "metrics", "decisionMatrix"}

\* C17: parse_thesis_content raises nothing and returns a record of the seven
\* fields for every content, and for the empty string the record of the
\* defaults: an empty summary, no metrics, no decision matrix, no caveats, no
\* generation date, an unknown recommendation.
C17_AlwaysARecord ==
    nphase = "parsed" =>
        /\ nout # Raised
        /\ DOMAIN nout = SevenFields
        /\ nin = Text(<<>>) =>
             nout = [executiveSummary |-> <<>>, recommendation |-> "Unknown",
                     recommendationSummary |-> <<>>, caveats |-> <<>>,
                     generatedAt |-> NoDate, metrics |-> <<>>, decisionMatrix |-> <<>>]

\* C17 witness: the empty string was parsed, to a record without metrics whose
\* recommendation is Unknown
C17_Witness ==
    /\ nphase = "parsed"
    /\ nin = Text(<<>>)
    /\ nout.recommendation = "Unknown"
    /\ nout.metrics = <<>>

\* C21: the backoff sleeps of get_holdings lie between attempts only: the k-th
\* sleep has exponent k, a task sleeps only while attempts remain, and a call
\* that fails with its retries exhausted has slept retries - 1 times.
C21_SleepsBetweenAttempts ==
    \A t \in Tasks :
        op[t] = "get_holdings" =>
            /\ \A k \in 1 .. Len(sleeps[t]) : sleeps[t][k] = k
            /\ pc[t] = "sleep" => attempt[t] < retries[t]
            /\ pc[t] = "failed" /\ result[t].kind = "exhausted" =>
                 Len(sleeps[t]) = retries[t] - 1

\* The operations of the network a task can be in the middle of
InFlight == {"aenter", "call", "sleep", "aexit"}

\* C22: the session lock is held by a task only while it establishes or tears
\* down the connection, never while its tool call is in flight or while it
\* sleeps between attempts; the cache lock is held only for the assignment of
\* the cache, never while the task is anywhere in mcp_manager.get_holdings.
C22_LocksOnlyForCriticalSections ==
    /\ lock \in Tasks \cup {0}
    /\ cacheLock \in Tasks \cup {0}
    /\ \A t \in Tasks :
        /\ pc[t] \in {"call", "sleep"} => lock # t
        /\ lock = t => pc[t] \in {"aenter", "aexit"}
        /\ cacheLock = t => pc[t] = "saving"
        /\ pc[t] \in InFlight \cup {"ensure"} => cacheLock # t

\* C22 witness: two tool calls overlap on one established handle, no lock held
C22_Witness ==
    /\ lock = 0
    /\ cacheLock = 0
    /\ \A t \in Tasks : pc[t] = "call" /\ hc[t] = client /\ hstate[client] = "live"

\* The elements of a list that are mappings, in their order
Mappings(q) == SelectSeq(q, LAMBDA x : IsDict(x))

\* C23: a holdings request whose fetch has answered does not fail on a list that
\* holds elements that are no mappings, the first one included: the response
\* has one record per mapping of the list, in the order of the list, each with
\* recognized keys only and with every recognized key of its mapping.
C23_NonMappingsSkipped ==
    \A t \in Tasks :
        op[t] = "holdings" /\ raw[t] # PNone =>
            /\ result[t].st # "err"
            /\ filtered[t] # PNone =>
                /\ Len(filtered[t].items) = Len(Mappings(Received(t)))
                /\ \A j \in 1 .. Len(filtered[t].items) :
                    /\ DOMAIN filtered[t].items[j].m \subseteq allowed_keys
                    /\ DOMAIN Mappings(Received(t))[j].m \cap allowed_keys
                         \subseteq DOMAIN filtered[t].items[j].m

Labels == {<<"High">>, <<"Medium">>, <<"Low">>}

\* The scores parse_thesis_content has stored, in metrics and in decisionMatrix
StoredScores ==
    UNION {{nout.metrics[c][m].score : m \in DOMAIN nout.metrics[c]} :
              c \in DOMAIN nout.metrics}
    \cup {nout.decisionMatrix[c].score : c \in DOMAIN nout.decisionMatrix}

\* C24: every score parse_thesis_content stores, in the metrics and in the
\* decision matrix, is High, Medium or Low: High for a cell with a positive
\* glyph, Medium for a neutral one, Low for a negative one, and Low for a cell
\* without a glyph of the code, whether it has other text or not.
C24_ScoresAreLabels ==
    nphase = "parsed" =>
        /\ StoredScores \subseteq Labels
        /\ nin = Thesis(<<"G">>) \/ nin = Thesis(<<"V">>) => StoredScores = {<<"High">>, <<"Medium">>}
        /\ nin = Thesis(<<"R">>) \/ nin = Thesis(<<"X">>) => StoredScores = {<<"Low">>, <<"Medium">>}
        /\ nin = Thesis(<<"Y">>) \/ nin = Thesis(<<"Y", "w">>) => StoredScores = {<<"Medium">>}
        /\ nin = Thesis(<<>>) \/ nin = Thesis(<<"w">>) => StoredScores = {<<"Low">>, <<"Medium">>}

\* C25: outside the critical section of the session lock, a handle the manager
\* holds is one whose __aenter__ has returned: after a failed establishment the
\* manager holds no handle, and no caller is handed one that never connected.
C25_HeldHandleIsConnected ==
    /\ lock = 0 /\ client # 0 => hstate[client] = "live"
    /\ \A t \in Tasks : pc[t] \in {"call", "sleep"} => hstate[hc[t]] # "failed"

\* C26: whatever the interleaving of get_holdings, get_login_url and close,
\* every call_tool, the first of an operation and each retry after a sleep, is
\* made on the handle the manager holds at that moment, never on one that
\* close() has torn down.
C26_CallsOnCurrentHandle ==
    [][\A t \in Tasks :
        Len(calls'[t]) > Len(calls[t]) =>
            hc'[t] = client' /\ hstate'[hc'[t]] # "closed"]_vars

\* C27: every fetch of the holdings endpoint that returns without error leaves
\* the cache populated, the empty list included; a refresh=false request that
\* arrives at a populated cache is a cache hit that returns the cached list,
\* as it is, without invoking mcp_manager.get_holdings; and no step takes a
\* populated cache back to the unpopulated state.
C27_EveryFetchPopulates ==
    /\ [](\A t \in Tasks :
            op[t] = "holdings" =>
                /\ pc[t] = "done" /\ invoked[t] => cache # PNone /\ fetched
                /\ ~refresh[t] /\ t0[t].fetched =>
                     /\ ~invoked[t] /\ pc[t] = "done"
                     /\ calls[t] = <<>>
                     /\ result[t] = Ok(t0[t].last))
    /\ [](fetched <=> cache # PNone)
    /\ [][cache # PNone => cache' # PNone]_vars

\* C27 witness: a plain-text answer was fetched as the empty list and cached, and
\* a later refresh=false request got the empty list from the cache without a call
C27_Witness ==
    \E t, u \in Tasks :
        /\ op[t] = "holdings" /\ pc[t] = "done" /\ invoked[t]
        /\ ~IsList(_normalize_tool_result(raw[t])) /\ result[t] = Ok(PList(<<>>))
        /\ op[u] = "holdings" /\ pc[u] = "done" /\ ~invoked[u] /\ ~refresh[u]
        /\ calls[u] = <<>> /\ result[u] = Ok(PList(<<>>))
        /\ cache = PList(<<>>)

====
